---- MODULE Spec2Model ----
(***************************************************************************)
(* A model of nest.py: the local Nest (isvenv, build_nest, lay_eggs,       *)
(* path_munging) and the RemoteNest (as_host, isvenv, build, lay_eggs)     *)
(* driven through Fabric's process-wide env.                                *)
(*                                                                         *)
(* Text.  A Python str is a sequence of tokens whose concatenation is the  *)
(* text.  Caller-supplied paths are written token by token ("/", a name,   *)
(* " ", ".", ".."); the literals of nest.py ("bin/pip", "install", ...)    *)
(* are single tokens.  No literal token begins or ends with "/" or holds   *)
(* white space, so join, normpath and shlex.split see every "/" and every  *)
(* blank of the text.                                                      *)
(***************************************************************************)
EXTENDS Integers, Sequences, FiniteSets, TLC

VARIABLES
    \* ---- the local process
    cwd,          \* os.getcwd()
    nest,         \* the Nest object: path, extra_paths, pip, site_packages
    fs,           \* local filesystem: the entry at fs.at and what it is
    heap,         \* list objects: id -> contents
    sys_path,     \* sys.path: the id of a list object
    pm_stack,     \* active path_munging generators, innermost last
    pm_last,      \* the last path_munging scope that exited
    pm_count,     \* path_munging scopes entered so far
    le_pc,        \* Nest.lay_eggs: position
    le_req,       \* Nest.lay_eggs: local `requirements`
    le_log,       \* Nest.lay_eggs: what the current/last call did, in order
    le_out,       \* Nest.lay_eggs: how the last call ended
    le_calls,     \* Nest.lay_eggs calls started so far
    iv_last,      \* the last direct isvenv(path) call and its outcome
    \* ---- the remote part: RemoteNest objects, Fabric's env, the remote hosts
    mgr,              \* the RemoteNest objects: id -> attributes
    env_host_string,  \* fab.env.host_string, shared by every thread
    env_warn_only,    \* fab.env.warn_only (nest.py never sets it)
    env_initial,      \* fab.env.host_string before any call
    stack,            \* per thread: the frames of its calls and with blocks
    rlog,             \* per thread: remote calls of its current/last call
    rout,             \* per thread: how its last call ended
    bl_last,          \* per thread: the last as_host block that exited
    ops,              \* per thread: calls and blocks started so far
    overlapped,       \* a thread began an operation while another was in one
    rfs,              \* remote files: pairs <<host string, path>> that exist
    rcwd,             \* the directory a remote command starts in
    reqfile           \* the local requirements file: readable?, content

localVars == <<cwd, nest, fs, heap, sys_path, pm_stack, pm_last, pm_count,
               le_pc, le_req, le_log, le_out, le_calls, iv_last>>

remoteVars == <<mgr, env_host_string, env_warn_only, env_initial, stack, rlog, rout, bl_last,
                ops, overlapped, rfs, rcwd, reqfile>>

vars == <<localVars, remoteVars>>

----------------------------------------------------------------------------
\* Bounds of the model.

MaxScopes == 3      \* path_munging scopes entered in one behaviour
MaxLists == 2       \* list objects the scope bodies may create
MaxLayEggs == 2     \* Nest.lay_eggs calls in one behaviour
MaxDepth == 2       \* as_host with blocks a caller nests
MaxOps == 2         \* calls and with blocks the single thread starts
MaxLayEggsOps == 2  \* RemoteNest.lay_eggs calls the single thread makes
MaxThreadOps == 1   \* calls and with blocks each of two threads starts
MaxInstallOps == 1  \* RemoteNest.lay_eggs calls beside the local ones
MaxCtorOps == 2     \* constructions and calls where managers are constructed

\* The threads of the process; the second acts only in SpecThreads
Threads == {1, 2}

----------------------------------------------------------------------------
\* Text helpers.

None == <<"<None>">>

RECURSIVE Concat(_)
\* ''.join(parts)
Concat(parts) ==
    IF parts = <<>> THEN <<>> ELSE Head(parts) \o Concat(Tail(parts))

StartsWithSlash(s) == s # <<>> /\ s[1] = "/"

EndsWithSlash(s) == s # <<>> /\ s[Len(s)] = "/"

IsWhite(tok) == tok \in {" ", "\n", "\t"}

RECURSIVE StrJoin(_, _)
\* sep.join(parts)
StrJoin(parts, sep) ==
    IF parts = <<>> THEN <<>>
    ELSE IF Len(parts) = 1 THEN parts[1]
    ELSE parts[1] \o sep \o StrJoin(Tail(parts), sep)

RECURSIVE SplitOn(_, _)
\* s.split(sep) for a one-token separator: always at least one piece
SplitOn(s, sep) ==
    IF s = <<>> THEN << <<>> >>
    ELSE LET rest == SplitOn(Tail(s), sep)
         IN  IF Head(s) = sep
             THEN << <<>> >> \o rest
             ELSE << <<Head(s)>> \o rest[1] >> \o Tail(rest)

\* os.path.join(a, b) of posixpath
JoinPath(a, b) ==
    IF StartsWithSlash(b) THEN b
    ELSE IF a = <<>> \/ EndsWithSlash(a) THEN a \o b
    ELSE a \o <<"/">> \o b

RECURSIVE NormComps(_, _, _)
\* the loop of posixpath.normpath over the components
NormComps(comps, new_comps, initial_slashes) ==
    IF comps = <<>> THEN new_comps
    ELSE LET comp == Head(comps)
             n == Len(new_comps)
         IN  IF comp \in {<<>>, <<".">>}
             THEN NormComps(Tail(comps), new_comps, initial_slashes)
             ELSE IF \/ comp # <<"..">>
                     \/ (initial_slashes = 0 /\ new_comps = <<>>)
                     \/ (new_comps # <<>> /\ new_comps[n] = <<"..">>)
             THEN NormComps(Tail(comps), Append(new_comps, comp), initial_slashes)
             ELSE IF new_comps # <<>>
             THEN NormComps(Tail(comps), SubSeq(new_comps, 1, n - 1), initial_slashes)
             ELSE NormComps(Tail(comps), new_comps, initial_slashes)

\* posixpath.normpath
NormPath(path) ==
    IF path = <<>> THEN <<".">>
    ELSE LET initial_slashes ==
                 IF ~StartsWithSlash(path) THEN 0
                 ELSE IF /\ Len(path) >= 2 /\ path[2] = "/"
                         /\ ~(Len(path) >= 3 /\ path[3] = "/")
                      THEN 2 ELSE 1
             comps == NormComps(SplitOn(path, "/"), <<>>, initial_slashes)
             joined == StrJoin(comps, <<"/">>)
             out == [i \in 1..initial_slashes |-> "/"] \o joined
         IN  IF out = <<>> THEN <<".">> ELSE out

\* os.path.abspath relative to the working directory wd
AbsPath(path, wd) ==
    IF StartsWithSlash(path) THEN NormPath(path) ELSE NormPath(JoinPath(wd, path))

RECURSIVE ShlexSplit(_)
\* shlex.split of a text without quotes, backslashes or comments: the
\* maximal runs of non-blank tokens
ShlexSplit(s) ==
    IF s = <<>> THEN <<>>
    ELSE IF IsWhite(Head(s)) THEN ShlexSplit(Tail(s))
    ELSE LET rest == ShlexSplit(Tail(s))
         IN  IF Len(s) >= 2 /\ ~IsWhite(s[2])
             THEN << <<Head(s)>> \o rest[1] >> \o Tail(rest)
             ELSE << <<Head(s)>> >> \o rest

----------------------------------------------------------------------------
\* Inputs of the local part.

CwdInputs == { <<"/">>, <<"/", "w">> }

NestPathInputs ==
    { <<"/", "e">>,
      <<"e">>,
      <<"/", "my", " ", "env">>,
      <<"/", "e", "/", "..", "/", "e", "/">> }

ReqFileInputs ==
    { <<"reqs.txt">>, <<"/", "r", "/", "reqs.txt">>, <<"my", " ", "reqs.txt">> }

PA == <<"/", "A">>
PB == <<"/", "B">>
PX == <<"/", "X">>

ExtraPathsInputs == { <<>>, <<PA>>, <<PA, PB>> }

SysPathInputs == { <<>>, << <<"/", "usr">>, <<"/", "opt">> >> }

\* Directory entry names, in the order list.sort() gives them
SortedNames == <<"bin", "include", "lib", "local", "share">>

ChildNames == { SortedNames[i] : i \in 1..Len(SortedNames) }

VenvNames == <<"bin", "include", "lib", "local">>

\* What virtualenv.create_environment leaves in the directory: the layout
\* with and without the "local" entry
BuilderLayouts == { {"bin", "include", "lib", "local"}, {"bin", "include", "lib"} }

ExitStatuses == { "0", "1" }

----------------------------------------------------------------------------
\* The local filesystem: one entry, at fs.at; every other path is absent.

Absent == [kind |-> "absent", children |-> {}]

Lookup(abspath) ==
    IF abspath = fs.at THEN [kind |-> fs.kind, children |-> fs.children] ELSE Absent

\* contents = os.listdir(abspath); contents.sort()
SortedListing(children) == SelectSeq(SortedNames, LAMBDA n : n \in children)

\* isvenv(path): "True", "False", or the OSError os.listdir raises on a
\* path that exists and is no directory
Isvenv(path) ==
    LET abspath == AbsPath(path, cwd)
        node == Lookup(abspath)
    IN  IF node.kind = "absent" THEN "False"
        ELSE IF node.kind = "file" THEN "OSError"
        ELSE IF SortedListing(node.children) = VenvNames THEN "True"
        ELSE "False"

\* Nest.__init__
NestInit(path, extra_paths, wd) ==
    LET abspath == AbsPath(path, wd)
    IN  [ path |-> abspath,
          extra_paths |-> extra_paths,
          pip |-> JoinPath(abspath, <<"bin/pip">>),
          site_packages |-> JoinPath(abspath, <<"lib/pythonX.Y/site-packages">>) ]

----------------------------------------------------------------------------
\* Nest.path_munging

\* a list.insert that appends instead of inserting at the front
ListInsertAtEnd(list, x) == list \o <<x>>

\* list.insert(0, x)
ListInsert0(list, x) == <<x>> \o list

RECURSIVE InsertEach(_, _)
\* for path in extra_paths: sys.path.insert(0, path)
InsertEach(list, paths) ==
    IF paths = <<>> THEN list
    ELSE InsertEach(ListInsert0(list, Head(paths)), Tail(paths))

\* the body of the try block up to the yield, on the list sys.path names
ApplyNest(list, n) == ListInsert0(InsertEach(list, n.extra_paths), n.site_packages)

\* oldpath = sys.path: the saved value is the list object itself, no copy
SavePath == sys_path

\* entering the with block: runs the generator up to its yield
PathMungingEnter ==
    /\ le_pc = "idle"
    /\ pm_count < MaxScopes
    /\ LET oldpath == SavePath
           before == heap[sys_path]
           munged == ApplyNest(before, nest)
       IN  /\ heap' = [heap EXCEPT ![sys_path] = munged]
           /\ pm_stack' = Append(pm_stack, [ oldpath |-> oldpath,
                                             before |-> before,
                                             onentry |-> munged ])
    /\ pm_count' = pm_count + 1
    /\ UNCHANGED <<remoteVars, cwd, nest, fs, sys_path, pm_last,
                   le_pc, le_req, le_log, le_out, le_calls, iv_last>>

\* a statement of the with body that rebinds sys.path to a new list
BodyRebind ==
    /\ le_pc = "idle"
    /\ pm_stack # <<>>
    /\ Len(heap) <= MaxLists
    /\ heap' = Append(heap, heap[sys_path] \o <<PX>>)
    /\ sys_path' = Len(heap) + 1
    /\ UNCHANGED <<remoteVars, cwd, nest, fs, pm_stack, pm_last, pm_count,
                   le_pc, le_req, le_log, le_out, le_calls, iv_last>>

\* leaving the with block, its body done or raising: the finally clause
PathMungingExit ==
    /\ le_pc = "idle"
    /\ pm_stack # <<>>
    /\ \E raised \in BOOLEAN :
        LET frame == pm_stack[Len(pm_stack)]
        IN  /\ sys_path' = frame.oldpath
            /\ pm_stack' = SubSeq(pm_stack, 1, Len(pm_stack) - 1)
            /\ pm_last' = [ valid |-> TRUE,
                            before |-> frame.before,
                            after |-> heap[frame.oldpath],
                            raised |-> raised ]
    /\ UNCHANGED <<remoteVars, cwd, nest, fs, heap, pm_count,
                   le_pc, le_req, le_log, le_out, le_calls, iv_last>>

----------------------------------------------------------------------------
\* isvenv called directly, and Nest.lay_eggs

Event(ev, arg) == [ev |-> ev, arg |-> arg]

NoOutcome == [how |-> "none", value |-> None]

Returned(value) == [how |-> "returned", value |-> value]

Raised(exc) == [how |-> "raised", value |-> <<exc>>]

IsvenvCall ==
    /\ le_pc = "idle"
    /\ \E path \in NestPathInputs :
        iv_last' = [ valid |-> TRUE,
                     abspath |-> AbsPath(path, cwd),
                     node |-> Lookup(AbsPath(path, cwd)),
                     result |-> Isvenv(path) ]
    /\ UNCHANGED <<remoteVars, cwd, nest, fs, heap, sys_path, pm_stack, pm_last, pm_count,
                   le_pc, le_req, le_log, le_out, le_calls>>

\* the filesystem after build_nest(path) when the builder leaves `layout`
BuildNest(path, layout) ==
    IF AbsPath(path, cwd) = fs.at
    THEN [fs EXCEPT !.kind = "dir", !.children = @ \cup layout]
    ELSE fs

\* cmd = shlex.split("%s install -r %s" % (self.pip, requirements))
InstallCmd(pip, requirements) ==
    ShlexSplit(pip \o <<" ", "install", " ", "-r", " ">> \o requirements)

\* lay_eggs(requirements_file): requirements = os.path.abspath(...)
LayEggsCall ==
    /\ le_pc = "idle"
    /\ \A t \in Threads : stack[t] = <<>>
    /\ le_calls < MaxLayEggs
    /\ \E requirements_file \in ReqFileInputs :
        le_req' = AbsPath(requirements_file, cwd)
    /\ le_pc' = "isvenv"
    /\ le_log' = <<>>
    /\ le_out' = NoOutcome
    /\ le_calls' = le_calls + 1
    /\ UNCHANGED <<remoteVars, cwd, nest, fs, heap, sys_path, pm_stack, pm_last, pm_count, iv_last>>

\* if not isvenv(self.path)
LayEggsIsvenv ==
    /\ le_pc = "isvenv"
    /\ LET r == Isvenv(nest.path)
       IN  /\ le_log' = Append(le_log, Event("isvenv", << <<r>> >>))
           /\ le_pc' = CASE r = "OSError" -> "idle"
                         [] r = "True" -> "popen"
                         [] OTHER -> "build"
           /\ le_out' = IF r = "OSError" THEN Raised("OSError") ELSE le_out
    /\ UNCHANGED <<remoteVars, cwd, nest, fs, heap, sys_path, pm_stack, pm_last, pm_count,
                   le_req, le_calls, iv_last>>

\* build_nest(self.path): the builder leaves a layout, or raises
LayEggsBuild ==
    /\ le_pc = "build"
    /\ le_log' = Append(le_log, Event("build_nest", <<AbsPath(nest.path, cwd)>>))
    /\ \/ \E layout \in BuilderLayouts :
            /\ fs' = BuildNest(nest.path, layout)
            /\ le_pc' = "popen"
            /\ le_out' = le_out
       \/ /\ fs' = fs
          /\ le_pc' = "idle"
          /\ le_out' = Raised("BuilderError")
    /\ UNCHANGED <<remoteVars, cwd, nest, heap, sys_path, pm_stack, pm_last, pm_count,
                   le_req, le_calls, iv_last>>

\* pip = subprocess.Popen(cmd): the child starts, or exec fails with OSError
LayEggsPopen ==
    /\ le_pc = "popen"
    /\ \/ /\ le_log' = Append(le_log, Event("Popen", InstallCmd(nest.pip, le_req)))
          /\ le_pc' = "wait"
          /\ le_out' = le_out
       \/ /\ le_log' = le_log
          /\ le_pc' = "idle"
          /\ le_out' = Raised("OSError")
    /\ UNCHANGED <<remoteVars, cwd, nest, fs, heap, sys_path, pm_stack, pm_last, pm_count,
                   le_req, le_calls, iv_last>>

\* a lay_eggs that returns the installer's exit status
WaitStatus(status) == <<status>>

\* what pip.wait() yields to lay_eggs: the status is dropped
WaitResult(status) == None

\* pip.wait(): the child exits with some status; then `return`
LayEggsWait ==
    /\ le_pc = "wait"
    /\ \E status \in ExitStatuses :
        /\ le_log' = Append(le_log, Event("exit", << <<status>> >>))
        /\ le_out' = Returned(WaitResult(status))
    /\ le_pc' = "idle"
    /\ UNCHANGED <<remoteVars, cwd, nest, fs, heap, sys_path, pm_stack, pm_last, pm_count,
                   le_req, le_calls, iv_last>>

----------------------------------------------------------------------------------------------------------------------------------------------------------------------------------------------------
\* The remote part: inputs.

MgrIds == {"m1", "m2"}

RemotePathInputs == { <<"/", "srv">>, <<"srv">> }

PythonInputs == { None, <<"/", "opt", "/", "python">> }

RcwdInputs == { <<"/", "srv">>, <<"/", "home">> }

HostStringInputs == { None, <<"root", "@", "old">> }

\* the requirements file: absent, empty, two lines, a last line without "\n"
ReqFileContents ==
    { [readable |-> FALSE, content |-> <<>>],
      [readable |-> TRUE, content |-> <<>>],
      [readable |-> TRUE, content |-> <<"foo==1.0", "\n", "bar", "\n">>],
      [readable |-> TRUE, content |-> <<"foo", "\n", "bar">>] }

\* how a remote command ends: exit status 0, another status, or no result at
\* all (the connection fails)
RunOutcomes == {"ok", "nonzero", "error"}

\* what uuid.uuid1() returns: a uuid.UUID object, as the library makes it,
\* or a str, as a stand-in for uuid1 would
UuidObject == <<"<UUID>">>

UuidResults == { UuidObject, <<"N3">> }

\* the value is a str: it has startswith and endswith
IsStr(v) == v # None /\ v # UuidObject

\* '{0}@{1}'.format(host, user)
HostString(host, user) == Concat(<<host, <<"@">>, user>>)

\* RemoteNest.__init__; venv_name is the text of uuid.uuid1()
RemoteNestInit(host, user, path, python, venv_name) ==
    LET venv_path == JoinPath(path, venv_name)
    IN  [ host |-> host,
          user |-> user,
          host_string |-> HostString(host, user),
          path |-> path,
          venv_name |-> venv_name,
          venv_path |-> venv_path,
          remote_venv_file |-> JoinPath(path, <<"virtualenv.py">>),
          remote_pip |-> JoinPath(venv_path, <<"bin/pip">>),
          remote_python |-> JoinPath(venv_path, <<"bin/python">>),
          remote_activate |-> JoinPath(venv_path, <<"bin/activate">>),
          python |-> python ]

\* os.path.join(path, self.venv_name) calls startswith on its second
\* argument: with a value that is no str it raises and no object is made
RemoteNestNew(host, user, path, python, venv_name) ==
    IF IsStr(venv_name)
    THEN [how |-> "returned", obj |-> RemoteNestInit(host, user, path, python, venv_name)]
    ELSE [how |-> "raised", obj |-> None]

\* a test that takes every interpreter path for unset
NeverTruthy(s) == FALSE

\* `not self.python` is false
Truthy(s) == s # None /\ s # <<>>

----------------------------------------------------------------------------
\* Frames.  A thread's stack holds one frame per active with block of its
\* caller (fn "with") and per active call (isvenv, build, lay_eggs).  The
\* frames "with", "isvenv" and "build" each run one as_host generator:
\* `saved` is its local host_string.

Frame(fn, pc, m) ==
    [ fn |-> fn, pc |-> pc, m |-> m,
      saved |-> None,       \* as_host: host_string
      prior |-> env_host_string,  \* fab.env.host_string when the frame began
      exc |-> FALSE,        \* an exception is propagating through the frame
      val |-> "None",       \* the value the call returns
      py0 |-> mgr[m].python,      \* self.python when the frame began
      cmd |-> <<>> ]        \* lay_eggs: " ".join(installcmd)

Top(t) == stack[t][Len(stack[t])]

Front(seq) == SubSeq(seq, 1, Len(seq) - 1)

SetTop(t, f) == [stack EXCEPT ![t] = Front(@) \o <<f>>]

\* the caller's code is running: outside every call, in the body of its
\* innermost with block
AtUser(t) ==
    IF stack[t] = <<>> THEN TRUE ELSE Top(t).fn = "with" /\ Top(t).pc = "body"

NoCall == [fn |-> "none", m |-> "m1", how |-> "none", value |-> "None"]

CallOutcome(f) ==
    [ fn |-> f.fn, m |-> f.m,
      how |-> IF f.exc THEN "raised" ELSE "returned",
      value |-> f.val ]

NoBlock == [valid |-> FALSE, m |-> "m1", prior |-> None, after |-> None, raised |-> FALSE]

\* an exception leaving the frames above `rest`: unless the body of the
\* innermost with block catches it, it enters that block's finally clause
Unwind(rest, exc, caught) ==
    IF ~exc \/ caught \/ rest = <<>> THEN rest
    ELSE [rest EXCEPT ![Len(rest)].pc = "restore", ![Len(rest)].exc = TRUE]

\* what the caller's code may do with an exception that reaches it
Catches(rest, exc) == IF exc /\ rest # <<>> THEN BOOLEAN ELSE {FALSE}

\* a lay_eggs that builds whatever isvenv said
AlwaysBuild(val) == "build"

\* if not self.isvenv(): self.build() -- where lay_eggs goes on from
AfterIsvenv(val) == IF val = "False" THEN "build" ELSE "open"

\* the stack once frame f (isvenv or build) has left it, `rest` being the
\* frames below: lay_eggs goes on after a return and is left by an exception
StackAfter(f, rest, caught) ==
    IF rest # <<>> /\ rest[Len(rest)].fn = "lay_eggs"
    THEN IF f.exc THEN Unwind(Front(rest), TRUE, caught)
         ELSE [rest EXCEPT ![Len(rest)].pc =
                              IF f.fn = "isvenv" THEN AfterIsvenv(f.val) ELSE "open",
                           ![Len(rest)].val = "None"]
    ELSE Unwind(rest, f.exc, caught)

\* the outcome recorded once frame f has left the stack
OutAfter(t, f, rest) ==
    IF rest # <<>> /\ rest[Len(rest)].fn = "lay_eggs"
    THEN IF f.exc
         THEN [rout EXCEPT ![t] = CallOutcome([rest[Len(rest)] EXCEPT !.exc = TRUE,
                                                                   !.val = f.val])]
         ELSE rout
    ELSE IF f.fn = "with" THEN rout
    ELSE [rout EXCEPT ![t] = CallOutcome(f)]

\* a remote call as the log keeps it: who issued it, what, and the host
\* Fabric reads from env at that moment
RemoteCall(f, op, arg, outcome, result) ==
    [ m |-> f.m, op |-> op, arg |-> arg, host |-> env_host_string,
      inblock |-> f.fn # "lay_eggs", outcome |-> outcome, result |-> result ]

Logged(t, f, op, arg, outcome, result) ==
    [rlog EXCEPT ![t] = Append(@, RemoteCall(f, op, arg, outcome, result))]

\* the outcomes a remote command can have: without a host there is none
Outcomes == IF env_host_string = None THEN {"error"} ELSE RunOutcomes

\* a fab.run that aborts on no status
FabRaisesOnError(outcome) == outcome = "error"

\* fab.run / operations.put raise: always when the connection fails, and on
\* a failed command unless env.warn_only is set
FabRaises(outcome) ==
    outcome = "error" \/ (outcome = "nonzero" /\ ~env_warn_only)

\* the name of what fab.run / operations.put raise
FabError(outcome) == IF outcome = "error" THEN "NetworkError" ELSE "SystemExit"

\* a path as the remote host resolves it
RemoteAbs(path) == IF StartsWithSlash(path) THEN path ELSE JoinPath(rcwd, path)

\* an existence check that says yes whatever the remote host holds
AlwaysExists(path) == TRUE

\* files.exists(path) on the current host
RemoteExists(path) == <<env_host_string, RemoteAbs(path)>> \in rfs

\* what a files.exists call gave, as the log keeps it
ExistsResult(path, outcome) ==
    IF outcome = "error" THEN "" ELSE IF RemoteExists(path) THEN "True" ELSE "False"

Created(paths) == rfs \cup { <<env_host_string, RemoteAbs(q)>> : q \in paths }

\* what the builder creates under the target it is given
BuilderFiles(target) ==
    { JoinPath(target, <<"bin/activate">>),
      JoinPath(target, <<"bin/pip">>),
      JoinPath(target, <<"bin/python">>) }

----------------------------------------------------------------------------
\* The caller: with blocks and calls.

OthersBusy(t) == \E u \in Threads \ {t} : stack[u] # <<>>

Begin(t, frame, limit) ==
    /\ AtUser(t)
    /\ le_pc = "idle"
    /\ ops[t] < limit
    /\ stack' = [stack EXCEPT ![t] = Append(@, frame)]
    /\ ops' = [ops EXCEPT ![t] = @ + 1]
    /\ overlapped' = (overlapped \/ OthersBusy(t))

\* with m.as_host(): -- the generator is created and about to run
UserWith(t, m, limit) ==
    /\ Len(stack[t]) < MaxDepth
    /\ Begin(t, Frame("with", "save", m), limit)
    /\ UNCHANGED <<localVars, mgr, env_host_string, env_warn_only, env_initial,
                   rlog, rout, bl_last, rfs, rcwd, reqfile>>

BeginCall(t, m, fn, pc, limit) ==
    /\ Begin(t, Frame(fn, pc, m), limit)
    /\ rlog' = [rlog EXCEPT ![t] = <<>>]
    /\ rout' = [rout EXCEPT ![t] = NoCall]
    /\ UNCHANGED <<localVars, mgr, env_host_string, env_warn_only, env_initial,
                   bl_last, rfs, rcwd, reqfile>>

\* m.isvenv()
CallIsvenv(t, m, limit) == BeginCall(t, m, "isvenv", "save", limit)

\* m.build()
CallBuild(t, m, limit) == BeginCall(t, m, "build", "save", limit)

\* m.lay_eggs(requirements_file)
CallLayEggs(t, m, limit) == BeginCall(t, m, "lay_eggs", "isvenv", limit)

\* m = RemoteNest(host, user, path, python), outside every block: the
\* caller's variable is bound to the new object unless __init__ raises
Construct(t, m, limit) ==
    /\ stack[t] = <<>>
    /\ le_pc = "idle"
    /\ ops[t] < limit
    /\ \E path \in RemotePathInputs, python \in PythonInputs, made \in UuidResults :
        LET host == IF m = "m1" THEN <<"h1">> ELSE <<"h2">>
            user == IF m = "m1" THEN <<"u1">> ELSE <<"u2">>
            new == RemoteNestNew(host, user, path, python, made)
        IN  /\ mgr' = IF new.how = "returned" THEN [mgr EXCEPT ![m] = new.obj] ELSE mgr
            /\ rout' = [rout EXCEPT ![t] =
                           [ fn |-> "__init__", m |-> m, how |-> new.how,
                             value |-> IF new.how = "returned" THEN "None"
                                       ELSE "AttributeError" ]]
    /\ ops' = [ops EXCEPT ![t] = @ + 1]
    /\ rlog' = [rlog EXCEPT ![t] = <<>>]
    /\ UNCHANGED <<localVars, env_host_string, env_warn_only, env_initial, stack,
                   bl_last, overlapped, rfs, rcwd, reqfile>>

\* the body of the caller's with block ends, or raises
WithEnd(t) ==
    /\ stack[t] # <<>>
    /\ Top(t).fn = "with"
    /\ Top(t).pc = "body"
    /\ \E raised \in BOOLEAN :
        stack' = SetTop(t, [Top(t) EXCEPT !.pc = "restore", !.exc = raised])
    /\ UNCHANGED <<localVars, mgr, env_host_string, env_warn_only, env_initial,
                   rlog, rout, bl_last, ops, overlapped, rfs, rcwd, reqfile>>

----------------------------------------------------------------------------
\* RemoteNest.as_host, one statement at a time.

\* where the with body of each function starts
BodyStart(fn) ==
    CASE fn = "isvenv" -> "activate"
      [] fn = "build" -> "exists"
      [] OTHER -> "body"

\* host_string = fab.env.host_string
AsHostSave(t) ==
    /\ stack[t] # <<>>
    /\ Top(t).pc = "save"
    /\ stack' = SetTop(t, [Top(t) EXCEPT !.saved = env_host_string, !.pc = "set"])
    /\ UNCHANGED <<localVars, mgr, env_host_string, env_warn_only, env_initial,
                   rlog, rout, bl_last, ops, overlapped, rfs, rcwd, reqfile>>

\* fab.env.host_string = self.host_string; try: yield
AsHostSet(t) ==
    /\ stack[t] # <<>>
    /\ Top(t).pc = "set"
    /\ env_host_string' = mgr[Top(t).m].host_string
    /\ stack' = SetTop(t, [Top(t) EXCEPT !.pc = BodyStart(Top(t).fn)])
    /\ UNCHANGED <<localVars, mgr, env_warn_only, env_initial,
                   rlog, rout, bl_last, ops, overlapped, rfs, rcwd, reqfile>>

\* a generator without try/finally: nothing is restored when the body raises
RestoredUnlessRaised(f) == IF f.exc THEN env_host_string ELSE f.saved

\* the value the finally clause assigns
Restored(f) == f.saved

\* finally: fab.env.host_string = host_string -- and the function returns
\* or the exception goes on
AsHostRestore(t) ==
    /\ stack[t] # <<>>
    /\ Top(t).pc = "restore"
    /\ LET f == Top(t)
           rest == Front(stack[t])
           below == IF rest # <<>> /\ rest[Len(rest)].fn = "lay_eggs"
                    THEN Front(rest) ELSE rest
       IN  /\ env_host_string' = Restored(f)
           /\ \E caught \in Catches(below, f.exc) :
                stack' = [stack EXCEPT ![t] = StackAfter(f, rest, caught)]
           /\ rout' = OutAfter(t, f, rest)
           /\ bl_last' = [bl_last EXCEPT ![t] =
                             [ valid |-> TRUE, m |-> f.m, prior |-> f.prior,
                               after |-> env_host_string', raised |-> f.exc ]]
    /\ UNCHANGED <<localVars, mgr, env_warn_only, env_initial,
                   rlog, ops, overlapped, rfs, rcwd, reqfile>>

----------------------------------------------------------------------------
\* RemoteNest.isvenv

IsvenvPath(f) ==
    CASE f.pc = "activate" -> mgr[f.m].remote_activate
      [] f.pc = "pip" -> mgr[f.m].remote_pip
      [] OTHER -> mgr[f.m].remote_python

IsvenvNext(pc) == IF pc = "activate" THEN "pip" ELSE "python"

\* one files.exists(...) of the `and` chain; a false one ends the chain
IsvenvExists(t) ==
    /\ stack[t] # <<>>
    /\ Top(t).fn = "isvenv"
    /\ Top(t).pc \in {"activate", "pip", "python"}
    /\ LET f == Top(t)
           path == IsvenvPath(f)
       IN  \E outcome \in Outcomes \ {"nonzero"} :
            /\ rlog' = Logged(t, f, "exists", path, outcome, ExistsResult(path, outcome))
            /\ stack' = SetTop(t,
                 IF outcome = "error"
                 THEN [f EXCEPT !.pc = "restore", !.exc = TRUE, !.val = "NetworkError"]
                 ELSE IF ~RemoteExists(path)
                 THEN [f EXCEPT !.pc = "restore", !.val = "False"]
                 ELSE IF f.pc = "python"
                 THEN [f EXCEPT !.pc = "restore", !.val = "True"]
                 ELSE [f EXCEPT !.pc = IsvenvNext(f.pc)])
    /\ UNCHANGED <<localVars, mgr, env_host_string, env_warn_only, env_initial,
                   rout, bl_last, ops, overlapped, rfs, rcwd, reqfile>>

----------------------------------------------------------------------------
\* RemoteNest.build

Raising(f, outcome) ==
    [f EXCEPT !.pc = "restore", !.exc = TRUE, !.val = FabError(outcome)]

MkdirCmd(m) == <<"mkdir", " ", "-p", " ">> \o mgr[m].path

WhichCmd == <<"which", " ", "python">>

\* the stdout of `which python`
WhichPython == <<"/", "usr", "/", "bin", "/", "python">>

\* a lookup whose output is lost
NoResult(outcome) == <<>>

\* what fab.run('which python') returns when it does not raise: the path on
\* status 0, nothing when the command found no python
WhichResult(outcome) == IF outcome = "ok" THEN WhichPython ELSE <<>>

\* '{python} {venv} --no-site-packages {name}'.format(...)
BuilderCmd(m) ==
    Concat(<< mgr[m].python, <<" ">>, mgr[m].remote_venv_file,
              <<" ", "--no-site-packages", " ">>, mgr[m].venv_name >>)

\* if not files.exists(self.path)
BuildExists(t) ==
    /\ stack[t] # <<>>
    /\ Top(t).fn = "build"
    /\ Top(t).pc = "exists"
    /\ LET f == Top(t)
       IN  \E outcome \in Outcomes \ {"nonzero"} :
            /\ rlog' = Logged(t, f, "exists", mgr[f.m].path, outcome,
                               ExistsResult(mgr[f.m].path, outcome))
            /\ stack' = SetTop(t,
                 IF outcome = "error" THEN Raising(f, outcome)
                 ELSE [f EXCEPT !.pc = IF RemoteExists(mgr[f.m].path)
                                       THEN "put" ELSE "mkdir"])
    /\ UNCHANGED <<localVars, mgr, env_host_string, env_warn_only, env_initial,
                   rout, bl_last, ops, overlapped, rfs, rcwd, reqfile>>

\* fab.run('mkdir -p {0}'.format(self.path))
BuildMkdir(t) ==
    /\ stack[t] # <<>>
    /\ Top(t).fn = "build"
    /\ Top(t).pc = "mkdir"
    /\ LET f == Top(t)
       IN  \E outcome \in Outcomes :
            /\ rlog' = Logged(t, f, "run", MkdirCmd(f.m), outcome, "")
            /\ stack' = SetTop(t, IF FabRaises(outcome) THEN Raising(f, outcome)
                                  ELSE [f EXCEPT !.pc = "put"])
            /\ rfs' = IF outcome = "ok" THEN Created({mgr[f.m].path}) ELSE rfs
    /\ UNCHANGED <<localVars, mgr, env_host_string, env_warn_only, env_initial,
                   rout, bl_last, ops, overlapped, rcwd, reqfile>>

\* operations.put(_venv_file(), self.remote_venv_file)
BuildPut(t) ==
    /\ stack[t] # <<>>
    /\ Top(t).fn = "build"
    /\ Top(t).pc = "put"
    /\ LET f == Top(t)
       IN  \E outcome \in Outcomes :
            /\ rlog' = Logged(t, f, "put", mgr[f.m].remote_venv_file, outcome, "")
            /\ stack' = SetTop(t, IF FabRaises(outcome) THEN Raising(f, outcome)
                                  ELSE [f EXCEPT !.pc = "which"])
            /\ rfs' = IF outcome = "ok" THEN Created({mgr[f.m].remote_venv_file})
                      ELSE rfs
    /\ UNCHANGED <<localVars, mgr, env_host_string, env_warn_only, env_initial,
                   rout, bl_last, ops, overlapped, rcwd, reqfile>>

\* if not self.python: self.python = fab.run('which python')
BuildWhich(t) ==
    /\ stack[t] # <<>>
    /\ Top(t).fn = "build"
    /\ Top(t).pc = "which"
    /\ ~Truthy(mgr[Top(t).m].python)
    /\ LET f == Top(t)
       IN  \E outcome \in Outcomes :
            /\ rlog' = Logged(t, f, "run", WhichCmd, outcome, "")
            /\ stack' = SetTop(t, IF FabRaises(outcome) THEN Raising(f, outcome)
                                  ELSE [f EXCEPT !.pc = "builder"])
            /\ mgr' = IF FabRaises(outcome) THEN mgr
                      ELSE [mgr EXCEPT ![f.m].python = WhichResult(outcome)]
    /\ UNCHANGED <<localVars, env_host_string, env_warn_only, env_initial,
                   rout, bl_last, ops, overlapped, rfs, rcwd, reqfile>>

\* fab.run('{python} {venv} --no-site-packages {name}'.format(...)), reached
\* from the lookup or past it when self.python is set
BuildBuilder(t) ==
    /\ stack[t] # <<>>
    /\ Top(t).fn = "build"
    /\ IF Top(t).pc = "which" THEN Truthy(mgr[Top(t).m].python)
       ELSE Top(t).pc = "builder"
    /\ LET f == Top(t)
       IN  \E outcome \in Outcomes :
            /\ rlog' = Logged(t, f, "run", BuilderCmd(f.m), outcome, "")
            /\ stack' = SetTop(t, IF FabRaises(outcome) THEN Raising(f, outcome)
                                  ELSE [f EXCEPT !.pc = "restore"])
            /\ rfs' = IF outcome = "ok" THEN Created(BuilderFiles(mgr[f.m].venv_name))
                      ELSE rfs
    /\ UNCHANGED <<localVars, mgr, env_host_string, env_warn_only, env_initial,
                   rout, bl_last, ops, overlapped, rcwd, reqfile>>

----------------------------------------------------------------------------
\* RemoteNest.lay_eggs

\* the lines without their line ends, as str.splitlines() gives them
ReadLinesStripped(content) ==
    LET pieces == SplitOn(content, "\n")
    IN  IF pieces[Len(pieces)] = <<>> THEN Front(pieces) ELSE pieces

RECURSIVE ReadLines(_)
\* file.readlines(): each line ends with its "\n", the last one maybe not
ReadLines(content) ==
    IF content = <<>> THEN <<>>
    ELSE LET ends == {i \in 1..Len(content) : content[i] = "\n"}
         IN  IF ends = {} THEN <<content>>
             ELSE LET first == CHOOSE i \in ends : \A j \in ends : i <= j
                  IN  <<SubSeq(content, 1, first)>>
                      \o ReadLines(SubSeq(content, first + 1, Len(content)))

\* " ".join([self.remote_pip, 'install'] + open(...).readlines())
RemoteInstallCmd(m, content) ==
    StrJoin(<<mgr[m].remote_pip, <<"install">>>> \o ReadLines(content), <<" ">>)

\* if not self.isvenv()
LayEggsIsvenvCall(t) ==
    /\ stack[t] # <<>>
    /\ Top(t).fn = "lay_eggs"
    /\ Top(t).pc = "isvenv"
    /\ stack' = [stack EXCEPT ![t] =
                    Front(@) \o << [Top(t) EXCEPT !.pc = "called"],
                                   Frame("isvenv", "save", Top(t).m) >>]
    /\ UNCHANGED <<localVars, mgr, env_host_string, env_warn_only, env_initial,
                   rlog, rout, bl_last, ops, overlapped, rfs, rcwd, reqfile>>

\* self.build()
LayEggsBuildCall(t) ==
    /\ stack[t] # <<>>
    /\ Top(t).fn = "lay_eggs"
    /\ Top(t).pc = "build"
    /\ stack' = [stack EXCEPT ![t] =
                    Front(@) \o << [Top(t) EXCEPT !.pc = "called"],
                                   Frame("build", "save", Top(t).m) >>]
    /\ UNCHANGED <<localVars, mgr, env_host_string, env_warn_only, env_initial,
                   rlog, rout, bl_last, ops, overlapped, rfs, rcwd, reqfile>>

\* installcmd = [...] + open(os.path.abspath(requirements_file)).readlines()
LayEggsOpen(t) ==
    /\ stack[t] # <<>>
    /\ Top(t).fn = "lay_eggs"
    /\ Top(t).pc = "open"
    /\ LET f == Top(t)
       IN  IF reqfile.readable
           THEN /\ stack' = SetTop(t, [f EXCEPT !.pc = "run",
                                                !.cmd = RemoteInstallCmd(f.m, reqfile.content)])
                /\ rout' = rout
           ELSE /\ \E caught \in Catches(Front(stack[t]), TRUE) :
                     stack' = [stack EXCEPT ![t] = Unwind(Front(@), TRUE, caught)]
                /\ rout' = [rout EXCEPT ![t] =
                               CallOutcome([f EXCEPT !.exc = TRUE, !.val = "IOError"])]
    /\ UNCHANGED <<localVars, mgr, env_host_string, env_warn_only, env_initial,
                   rlog, bl_last, ops, overlapped, rfs, rcwd, reqfile>>

\* fab.run(" ".join(installcmd)); its result is dropped
LayEggsRun(t) ==
    /\ stack[t] # <<>>
    /\ Top(t).fn = "lay_eggs"
    /\ Top(t).pc = "run"
    /\ LET f == Top(t)
       IN  \E outcome \in Outcomes :
            /\ rlog' = Logged(t, f, "run", f.cmd, outcome, "")
            /\ \E caught \in Catches(Front(stack[t]), FabRaises(outcome)) :
                 stack' = [stack EXCEPT ![t] =
                              Unwind(Front(@), FabRaises(outcome), caught)]
            /\ rout' = [rout EXCEPT ![t] =
                           IF FabRaises(outcome)
                           THEN CallOutcome([f EXCEPT !.exc = TRUE,
                                                      !.val = FabError(outcome)])
                           ELSE CallOutcome(f)]
    /\ UNCHANGED <<localVars, mgr, env_host_string, env_warn_only, env_initial,
                   bl_last, ops, overlapped, rfs, rcwd, reqfile>>

----------------
\* The local specifications: the activation scope, and isvenv / lay_eggs.

NoScope == [valid |-> FALSE, before |-> <<>>, after |-> <<>>, raised |-> FALSE]

NoIsvenv == [valid |-> FALSE, abspath |-> <<>>, node |-> Absent, result |-> "False"]

FsNodes ==
    {[kind |-> "absent", children |-> {}], [kind |-> "file", children |-> {}]}
    \cup {[kind |-> "dir", children |-> c] : c \in SUBSET ChildNames}

\* the local process with a Nest constructed and nothing called yet
InitLocalWith(cwds, paths, extras, nodes, syspaths) ==
    /\ cwd \in cwds
    /\ \E path \in paths, extra_paths \in extras :
        nest = NestInit(path, extra_paths, cwd)
    /\ \E node \in nodes :
        fs = [at |-> nest.path, kind |-> node.kind, children |-> node.children]
    /\ \E initial \in syspaths : heap = <<initial>>
    /\ sys_path = 1
    /\ pm_stack = <<>>
    /\ pm_last = NoScope
    /\ pm_count = 0
    /\ le_pc = "idle"
    /\ le_req = <<>>
    /\ le_log = <<>>
    /\ le_out = NoOutcome
    /\ le_calls = 0
    /\ iv_last = NoIsvenv

\* the remote files a behaviour may start from: none; the base directories;
\* the base directories with m1's environment complete and m2's begun
RfsInputs(managers, wd) ==
    LET at(m, path) == << managers[m].host_string,
                          IF StartsWithSlash(path) THEN path ELSE JoinPath(wd, path) >>
        bases == { at(m, managers[m].path) : m \in MgrIds }
    IN  { {},
          bases,
          bases \cup { at("m1", managers["m1"].remote_activate),
                       at("m1", managers["m1"].remote_pip),
                       at("m1", managers["m1"].remote_python),
                       at("m2", managers["m2"].remote_activate) } }

\* two RemoteNest objects constructed and nothing called yet
InitRemoteWith(paths, pythons, rcwds, hosts, warns, reqfiles) ==
    /\ \E path \in paths, python \in pythons :
        mgr = [ m \in MgrIds |->
                  IF m = "m1"
                  THEN RemoteNestInit(<<"h1">>, <<"u1">>, path, python, <<"N1">>)
                  ELSE RemoteNestInit(<<"h2">>, <<"u2">>, <<"/", "srv">>, None, <<"N2">>) ]
    /\ rcwd \in rcwds
    /\ rfs \in RfsInputs(mgr, rcwd)
    /\ env_host_string \in hosts
    /\ env_initial = env_host_string
    /\ env_warn_only \in warns
    /\ reqfile \in reqfiles
    /\ stack = [t \in Threads |-> <<>>]
    /\ rlog = [t \in Threads |-> <<>>]
    /\ rout = [t \in Threads |-> NoCall]
    /\ bl_last = [t \in Threads |-> NoBlock]
    /\ ops = [t \in Threads |-> 0]
    /\ overlapped = FALSE

LocalIdle == InitLocalWith({<<"/">>}, {<<"/", "e">>}, {<<>>}, {Absent}, {<<>>})

RemoteIdle ==
    InitRemoteWith({<<"/", "srv">>}, {None}, {<<"/", "srv">>}, {None}, {FALSE},
                   {[readable |-> FALSE, content |-> <<>>]})
    /\ rfs = {}

InitPath ==
    /\ InitLocalWith(CwdInputs, NestPathInputs, ExtraPathsInputs, {Absent}, SysPathInputs)
    /\ RemoteIdle

NextPath ==
    \/ PathMungingEnter
    \/ BodyRebind
    \/ PathMungingExit

SpecPath == InitPath /\ [][NextPath]_vars

InitEggs ==
    /\ InitLocalWith(CwdInputs, NestPathInputs, {<<>>}, FsNodes, {<<>>})
    /\ RemoteIdle

NextEggs ==
    \/ IsvenvCall
    \/ LayEggsCall
    \/ LayEggsIsvenv
    \/ LayEggsBuild
    \/ LayEggsPopen
    \/ LayEggsWait

SpecEggs == InitEggs /\ [][NextEggs]_vars

\* the steps inside as_host, isvenv and build
Inner(t) ==
    \/ AsHostSave(t)
    \/ AsHostSet(t)
    \/ AsHostRestore(t)
    \/ IsvenvExists(t)
    \/ BuildExists(t)
    \/ BuildMkdir(t)
    \/ BuildPut(t)
    \/ BuildWhich(t)
    \/ BuildBuilder(t)

\* One thread driving both managers: with blocks, isvenv and build.
InitRemote ==
    /\ LocalIdle
    /\ InitRemoteWith(RemotePathInputs, PythonInputs, RcwdInputs, HostStringInputs,
                      BOOLEAN, {[readable |-> FALSE, content |-> <<>>]})

NextRemote ==
    \/ \E m \in MgrIds :
        \/ UserWith(1, m, MaxOps)
        \/ CallIsvenv(1, m, MaxOps)
        \/ CallBuild(1, m, MaxOps)
    \/ WithEnd(1)
    \/ Inner(1)

SpecRemote == InitRemote /\ [][NextRemote]_vars

\* One thread calling lay_eggs.
InitLayEggs ==
    /\ LocalIdle
    /\ InitRemoteWith(RemotePathInputs, PythonInputs, RcwdInputs, HostStringInputs,
                      BOOLEAN, ReqFileContents)

NextLayEggs ==
    \/ \E m \in MgrIds : CallLayEggs(1, m, MaxLayEggsOps)
    \/ LayEggsIsvenvCall(1)
    \/ LayEggsBuildCall(1)
    \/ LayEggsOpen(1)
    \/ LayEggsRun(1)
    \/ Inner(1)

SpecLayEggs == InitLayEggs /\ [][NextLayEggs]_vars

\* One thread calling Nest.lay_eggs and RemoteNest.lay_eggs, one at a time.
VenvDir == [kind |-> "dir", children |-> {"bin", "include", "lib", "local"}]

InitInstall ==
    /\ InitLocalWith({<<"/">>}, {<<"/", "e">>}, {<<>>}, {Absent, VenvDir}, {<<>>})
    /\ InitRemoteWith({<<"/", "srv">>}, {None}, {<<"/", "srv">>}, HostStringInputs,
                      BOOLEAN,
                      {[readable |-> TRUE, content |-> <<"foo==1.0", "\n", "bar", "\n">>]})

NextInstall ==
    \/ LayEggsCall
    \/ LayEggsIsvenv
    \/ LayEggsBuild
    \/ LayEggsPopen
    \/ LayEggsWait
    \/ CallLayEggs(1, "m1", MaxInstallOps)
    \/ LayEggsIsvenvCall(1)
    \/ LayEggsBuildCall(1)
    \/ LayEggsOpen(1)
    \/ LayEggsRun(1)
    \/ Inner(1)

SpecInstall == InitInstall /\ [][NextInstall]_vars

\* One thread constructing managers and using them.
InitCtor ==
    /\ LocalIdle
    /\ InitRemoteWith({<<"/", "srv">>}, {None}, {<<"/", "srv">>}, {<<"root", "@", "old">>},
                      {FALSE}, {[readable |-> TRUE, content |-> <<"foo", "\n", "bar">>]})

NextCtor ==
    \/ \E m \in MgrIds :
        \/ Construct(1, m, MaxCtorOps)
        \/ UserWith(1, m, MaxCtorOps)
        \/ CallIsvenv(1, m, MaxCtorOps)
        \/ CallBuild(1, m, MaxCtorOps)
        \/ CallLayEggs(1, m, MaxCtorOps)
    \/ WithEnd(1)
    \/ LayEggsIsvenvCall(1)
    \/ LayEggsBuildCall(1)
    \/ LayEggsOpen(1)
    \/ LayEggsRun(1)
    \/ Inner(1)

SpecCtor == InitCtor /\ [][NextCtor]_vars

\* Nest.lay_eggs called, and called again, on a directory that starts empty.
EmptyDir == [kind |-> "dir", children |-> {}]

InitFresh ==
    /\ InitLocalWith(CwdInputs, NestPathInputs, {<<>>}, {EmptyDir}, {<<>>})
    /\ RemoteIdle

NextFresh ==
    \/ LayEggsCall
    \/ LayEggsIsvenv
    \/ LayEggsBuild
    \/ LayEggsPopen
    \/ LayEggsWait

SpecFresh == InitFresh /\ [][NextFresh]_vars

\* Two threads, each driving its own manager, with nothing to order them:
\* the first opens with blocks and calls isvenv, the second calls isvenv.
ThreadMgr(t) == IF t = 1 THEN "m1" ELSE "m2"

InitThreads ==
    /\ LocalIdle
    /\ InitRemoteWith({<<"/", "srv">>}, {None}, {<<"/", "srv">>}, HostStringInputs,
                      {FALSE}, {[readable |-> FALSE, content |-> <<>>]})

NextThreads ==
    \/ UserWith(1, ThreadMgr(1), MaxThreadOps)
    \/ WithEnd(1)
    \/ \E t \in Threads :
        \/ CallIsvenv(t, ThreadMgr(t), MaxThreadOps)
        \/ AsHostSave(t)
        \/ AsHostSet(t)
        \/ AsHostRestore(t)
        \/ IsvenvExists(t)

SpecThreads == InitThreads /\ [][NextThreads]_vars

----------------------------------------------------------------------------
\* Claims about the local Nest.

Reverse(seq) == [i \in 1..Len(seq) |-> seq[Len(seq) + 1 - i]]

EventsAt(log, ev) == {i \in 1..Len(log) : log[i].ev = ev}

\* C3: after a path_munging scope exits, normally or by an exception, the
\* module search path has exactly the contents it had before entry.
C3_PathRestoredOnExit ==
    pm_last.valid => pm_last.after = pm_last.before

\* C4: on entry to a path_munging scope the search path is the site-packages
\* directory, then extra_paths in reverse order, then the entries the path
\* had before entry in their order.
C4_EntryOrder ==
    \A i \in 1..Len(pm_stack) :
        pm_stack[i].onentry =
            <<nest.site_packages>> \o Reverse(nest.extra_paths) \o pm_stack[i].before

C4_Witness ==
    /\ pm_stack # <<>>
    /\ nest.extra_paths = <<PA, PB>>
    /\ pm_stack[1].before # <<>>
    /\ heap[sys_path] = <<nest.site_packages, PB, PA>> \o pm_stack[1].before

\* C5: a Nest.lay_eggs call that returns invoked build_nest exactly once and
\* before the installer started when isvenv(self.path) was false, never when
\* it was true; it started exactly the command
\* [<path>/bin/pip, install, -r, <absolute requirements file>] and returned
\* after that process exited.
C5_LayEggsContract ==
    le_out.how = "returned" =>
        LET wasvenv == le_log[1].arg = << <<"True">> >>
            builds == EventsAt(le_log, "build_nest")
            popens == EventsAt(le_log, "Popen")
            exits == EventsAt(le_log, "exit")
        IN  /\ le_log[1].ev = "isvenv"
            /\ ~wasvenv => /\ Cardinality(builds) = 1
                           /\ \A b \in builds, p \in popens : b < p
            /\ wasvenv => builds = {}
            /\ Cardinality(popens) = 1
            /\ \A p \in popens :
                 le_log[p].arg = << nest.path \o <<"/", "bin/pip">>,
                                    <<"install">>, <<"-r">>, le_req >>
            /\ exits = {Len(le_log)}
            /\ \A p \in popens : p < Len(le_log)

\* C6: isvenv(P) returns true exactly when P exists and its children are
\* exactly bin, include, lib and local, and returns false otherwise; it
\* never raises.
C6_IsvenvIff ==
    iv_last.valid =>
        iv_last.result =
            IF /\ iv_last.node.kind # "absent"
               /\ iv_last.node.children = {"bin", "include", "lib", "local"}
            THEN "True" ELSE "False"

----------------------------------------------------------------------------
\* Claims about the RemoteNest.

InBody(t) == stack[t] # <<>> /\ Top(t).fn = "with" /\ Top(t).pc = "body"

\* C1: when an as_host block ends, its body done or raising, the shared
\* current host is again what it was before the block; nested blocks
\* restore innermost first, so the caller finds the enclosing block's host
\* inside that block and the original one outside every block.
C1_HostRestored ==
    /\ bl_last[1].valid => bl_last[1].after = bl_last[1].prior
    /\ stack[1] = <<>> => env_host_string = env_initial
    /\ InBody(1) => env_host_string = mgr[Top(1).m].host_string

C1_Witness ==
    /\ InBody(1)
    /\ bl_last[1].valid
    /\ bl_last[1].raised
    /\ bl_last[1].m # Top(1).m
    /\ bl_last[1].after = mgr[Top(1).m].host_string
    /\ env_host_string # env_initial

\* C2: inside a manager's as_host block, with no nested block active, the
\* shared current host is the user, then "@", then the host.
C2_UserAtHost ==
    InBody(1) =>
        env_host_string = mgr[Top(1).m].user \o <<"@">> \o mgr[Top(1).m].host

RECURSIVE SpaceAfterNewlines(_)
\* the text with a blank put after every "\n" that is not its last token
SpaceAfterNewlines(text) ==
    IF text = <<>> THEN <<>>
    ELSE IF Head(text) = "\n" /\ Tail(text) # <<>>
    THEN <<"\n", " ">> \o SpaceAfterNewlines(Tail(text))
    ELSE <<Head(text)>> \o SpaceAfterNewlines(Tail(text))

\* the remote pip, "install" and the file's lines, newlines kept, with single
\* blanks between them
InstallText(pip, content) ==
    pip \o <<" ", "install">>
        \o (IF content = <<>> THEN <<>> ELSE <<" ">> \o SpaceAfterNewlines(content))

\* the remote calls lay_eggs itself issues, outside isvenv and build
OwnCalls(t) == {i \in 1..Len(rlog[t]) : ~rlog[t][i].inblock}

\* C7: RemoteNest.lay_eggs issues one install command, after every call of
\* isvenv and build: the remote pip path, "install" and every line of the
\* requirements file in order, newlines included, joined by single blanks,
\* with no "-r"; a lay_eggs that returns has issued it.
C7_InstallCommand ==
    /\ \A i \in OwnCalls(1) :
        /\ i = Len(rlog[1])
        /\ rlog[1][i].op = "run"
        /\ rlog[1][i].arg = InstallText(mgr[rlog[1][i].m].remote_pip, reqfile.content)
        /\ \A k \in 1..Len(rlog[1][i].arg) : rlog[1][i].arg[k] # "-r"
    /\ (rout[1].fn = "lay_eggs" /\ rout[1].how = "returned") => OwnCalls(1) # {}

C7_Witness ==
    /\ rout[1].fn = "lay_eggs"
    /\ rout[1].how = "returned"
    /\ Len(rlog[1]) > 4
    /\ reqfile.content = <<"foo==1.0", "\n", "bar", "\n">>
    /\ rlog[1][Len(rlog[1])].arg =
         mgr[rout[1].m].remote_pip \o <<" ", "install", " ", "foo==1.0", "\n", " ", "bar", "\n">>

\* the calls of the log as pairs <<operation, argument>>
CallsOf(log) == [i \in 1..Len(log) |-> <<log[i].op, log[i].arg>>]

\* the steps of a build of manager m whose first check answered `existed`
\* and whose interpreter was py0 at the start
BuildSteps(m, existed, py0) ==
    LET base == mgr[m].path
        script == base \o <<"/", "virtualenv.py">>
        unset == py0 \in {None, <<>>}
    IN  << <<"exists", base>> >>
        \o (IF existed = "False"
            THEN << <<"run", <<"mkdir", " ", "-p", " ">> \o base>> >> ELSE <<>>)
        \o << <<"put", script>> >>
        \o (IF unset THEN << <<"run", <<"which", " ", "python">>>> >> ELSE <<>>)
        \o << <<"run", mgr[m].python \o <<" ">> \o script
                        \o <<" ", "--no-site-packages", " ">> \o mgr[m].venv_name>> >>

\* C8: a build that has run all its steps without an error issued, inside
\* its one as_host block and in this order: the existence check of the base
\* path; mkdir -p exactly when the check said no; the upload to
\* <base>/virtualenv.py; `which python` exactly when no interpreter was set;
\* the builder run with the configured or just resolved interpreter.
C8_BuildOrder ==
    (stack[1] # <<>> /\ Top(1).fn = "build" /\ Top(1).pc = "restore" /\ ~Top(1).exc) =>
        LET f == Top(1)
        IN  /\ CallsOf(rlog[1]) = BuildSteps(f.m, rlog[1][1].result, f.py0)
            /\ \A i \in 1..Len(rlog[1]) :
                 /\ rlog[1][i].inblock
                 /\ rlog[1][i].m = f.m
                 /\ rlog[1][i].host = mgr[f.m].host_string
            /\ (f.py0 \notin {None, <<>>}) => mgr[f.m].python = f.py0

C8_Witness ==
    /\ stack[1] # <<>>
    /\ Top(1).fn = "build"
    /\ Top(1).pc = "restore"
    /\ ~Top(1).exc
    /\ Len(rlog[1]) = 5
    /\ mgr[Top(1).m].python = WhichPython

\* a remote call issued inside a manager's block went to another host
Misdirected ==
    \E t \in Threads : \E i \in 1..Len(rlog[t]) :
        rlog[t][i].inblock /\ rlog[t][i].host # mgr[rlog[t][i].m].host_string

\* every block has exited and the shared current host is not the original
LeftChanged ==
    /\ \A t \in Threads : stack[t] = <<>>
    /\ \E t \in Threads : ops[t] > 0
    /\ env_host_string # env_initial

\* C9: two threads running host-scoped operations of different managers can
\* reach a bad state (a call inside one manager's block reads another host
\* string, or the shared host is left changed after both blocks exited);
\* when the operations do not overlap no bad state is reached.
C9_SequentialSafe == ~overlapped => ~(Misdirected \/ LeftChanged)

C9_Witness == overlapped /\ Misdirected /\ LeftChanged

\* the installer of the last remote lay_eggs ran to completion with `status`
RemoteInstallerExited(status) ==
    /\ rout[1].fn = "lay_eggs"
    /\ OwnCalls(1) # {}
    /\ rlog[1][Len(rlog[1])].outcome = status

LocalInstallerExited ==
    /\ le_pc = "idle"
    /\ le_log # <<>>
    /\ le_log[Len(le_log)].ev = "exit"

\* C10: once the installer has run to completion, with any exit status,
\* Nest.lay_eggs and RemoteNest.lay_eggs return None and raise nothing.
C10_ExitStatusIgnored ==
    /\ LocalInstallerExited => le_out = Returned(None)
    /\ \A status \in {"ok", "nonzero"} :
        RemoteInstallerExited(status) =>
            rout[1].how = "returned" /\ rout[1].value = "None"

\* C10 as amended: Nest.lay_eggs returns None whatever the status;
\* RemoteNest.lay_eggs returns None when the status is zero or env.warn_only
\* is set, and lets fab.run's SystemExit through when the status is not zero
\* and env.warn_only is not set; the installer's end changes no manager.
C10_ExitStatusAmended ==
    /\ [](LocalInstallerExited => le_out = Returned(None))
    /\ [](RemoteInstallerExited("ok") =>
            rout[1].how = "returned" /\ rout[1].value = "None")
    /\ [](RemoteInstallerExited("nonzero") =>
            IF env_warn_only
            THEN rout[1].how = "returned" /\ rout[1].value = "None"
            ELSE rout[1].how = "raised" /\ rout[1].value = "SystemExit")
    /\ [][ (le_pc = "wait" \/ (stack[1] # <<>> /\ Top(1).pc = "run"))
             => (mgr' = mgr /\ nest' = nest) ]_vars

C10_Witness ==
    /\ LocalInstallerExited
    /\ le_log[Len(le_log)].arg = << <<"1">> >>
    /\ le_out = Returned(None)
    /\ RemoteInstallerExited("nonzero")
    /\ rout[1].how = "raised"

\* file `rel` of manager m's environment, <base>/<name>/<rel>, is on m's host
EnvFileExists(m, rel) ==
    LET path == mgr[m].path \o <<"/">> \o mgr[m].venv_name \o <<"/", rel>>
        abs == IF path[1] = "/" THEN path ELSE rcwd \o <<"/">> \o path
    IN  <<mgr[m].host_string, abs>> \in rfs

\* an isvenv call has its answer and no check of it failed to connect
IsvenvAnswered ==
    stack[1] # <<>> /\ Top(1).fn = "isvenv" /\ Top(1).pc = "restore" /\ ~Top(1).exc

\* C11: RemoteNest.isvenv() answers true exactly when bin/activate, bin/pip
\* and bin/python of <base>/<name> all exist on the manager's host at the
\* time of the call; every call makes its own existence checks, on that
\* host, and answers from them alone.
C11_RemoteIsvenvIff ==
    IsvenvAnswered =>
        LET m == Top(1).m
            all == /\ EnvFileExists(m, "bin/activate")
                   /\ EnvFileExists(m, "bin/pip")
                   /\ EnvFileExists(m, "bin/python")
        IN  /\ Top(1).val = IF all THEN "True" ELSE "False"
            /\ rlog[1] # <<>>
            /\ \A i \in 1..Len(rlog[1]) :
                 /\ rlog[1][i].op = "exists"
                 /\ rlog[1][i].m = m
                 /\ rlog[1][i].host = mgr[m].host_string
            /\ all => Len(rlog[1]) = 3

\* an isvenv that says true after a build of this manager created the files
C11_Witness ==
    /\ IsvenvAnswered
    /\ Top(1).val = "True"
    /\ Len(rlog[1]) = 3
    /\ ops[1] = 2
    /\ mgr[Top(1).m].python = WhichPython

\* the three checks of isvenv opened the log of this lay_eggs and all said yes
IsvenvWasTrue ==
    /\ Len(rlog[1]) >= 3
    /\ \A i \in 1..3 : rlog[1][i].op = "exists" /\ rlog[1][i].result = "True"

\* C12: a RemoteNest.lay_eggs that finds isvenv() true runs no build step:
\* its remote calls are the three existence checks and then, at most once,
\* the install command, however often lay_eggs is repeated.
C12_NoRebuild ==
    IsvenvWasTrue =>
        LET m == rlog[1][1].m
        IN  /\ Len(rlog[1]) <= 4
            /\ rlog[1][1].arg = mgr[m].remote_activate
            /\ rlog[1][2].arg = mgr[m].remote_pip
            /\ rlog[1][3].arg = mgr[m].remote_python
            /\ Len(rlog[1]) = 4 =>
                 /\ rlog[1][4].op = "run"
                 /\ ~rlog[1][4].inblock
                 /\ rlog[1][4].arg = InstallText(mgr[m].remote_pip, reqfile.content)
            /\ (rout[1].fn = "lay_eggs" /\ rout[1].how = "returned") => Len(rlog[1]) = 4

\* a second lay_eggs, on the environment the first one built, has returned
C12_Witness ==
    /\ IsvenvWasTrue
    /\ ops[1] = 2
    /\ rout[1].fn = "lay_eggs"
    /\ rout[1].how = "returned"
    /\ mgr[rout[1].m].python = WhichPython
    /\ Len(rlog[1]) = 4

\* C13: from an empty directory D and a builder that leaves exactly bin,
\* include, lib and local, a Nest(D).lay_eggs that returns leaves isvenv(D)
\* true, having invoked the builder once and started the installer once with
\* D/bin/pip as its executable; a second call starts the installer once more
\* and invokes no builder.
C13_FreshEnvironment ==
    (le_out.how = "returned" /\ fs.children = {"bin", "include", "lib", "local"}) =>
        LET builds == EventsAt(le_log, "build_nest")
            popens == EventsAt(le_log, "Popen")
        IN  /\ Isvenv(nest.path) = "True"
            /\ Cardinality(popens) = 1
            /\ \A p \in popens : le_log[p].arg[1] = nest.path \o <<"/", "bin/pip">>
            /\ le_calls = 1 => Cardinality(builds) = 1
            /\ (le_calls = 2 /\ le_log[1].arg = << <<"True">> >>) => builds = {}

\* the same for a directory whose path holds no blank
C13_WithoutBlanks ==
    (\A i \in 1..Len(nest.path) : nest.path[i] # " ") => C13_FreshEnvironment

\* the four derived paths of manager m are those of base path and name
DerivedFromBaseAndName(m) ==
    LET env == mgr[m].path \o <<"/">> \o mgr[m].venv_name
    IN  /\ mgr[m].remote_pip = env \o <<"/", "bin/pip">>
        /\ mgr[m].remote_python = env \o <<"/", "bin/python">>
        /\ mgr[m].remote_activate = env \o <<"/", "bin/activate">>
        /\ mgr[m].remote_venv_file = mgr[m].path \o <<"/", "virtualenv.py">>

\* C14: constructing a RemoteNest gives an object whose remote_pip,
\* remote_python and remote_activate are base/N/bin/pip, base/N/bin/python
\* and base/N/bin/activate and whose remote_venv_file is base/virtualenv.py,
\* N being the name fixed at construction.
C14_DerivedPaths ==
    rout[1].fn = "__init__" =>
        /\ rout[1].how = "returned"
        /\ DerivedFromBaseAndName(rout[1].m)

\* every manager there is has the four paths of its base path and name
C14_PathsOfExisting == \A m \in MgrIds : DerivedFromBaseAndName(m)

\* no operation on a manager changes its name or its derived paths, and
\* only a construction that returns rebinds a manager
C14_FieldsStable ==
    [][ \A m \in MgrIds :
          \/ mgr'[m] = [mgr[m] EXCEPT !.python = mgr'[m].python]
          \/ rout'[1].fn = "__init__" /\ rout'[1].how = "returned" /\ rout'[1].m = m
      ]_vars

\* C15: every remote call of isvenv, build and lay_eggs, the install
\* command of lay_eggs included, is issued while the shared current host is
\* the host string of the manager that issues it.
C15_CallsOnOwnHost ==
    \A i \in 1..Len(rlog[1]) : rlog[1][i].host = mgr[rlog[1][i].m].host_string

\* the same for the calls issued inside isvenv and build alone
C15_BlockCallsOnOwnHost ==
    \A i \in 1..Len(rlog[1]) :
        rlog[1][i].inblock => rlog[1][i].host = mgr[rlog[1][i].m].host_string

\* a build has run all its steps, each ending with status 0, and is about to
\* return
BuildSucceeded ==
    /\ stack[1] # <<>>
    /\ Top(1).fn = "build"
    /\ Top(1).pc = "restore"
    /\ ~Top(1).exc
    /\ \A i \in 1..Len(rlog[1]) : rlog[1][i].outcome = "ok"

\* C16: once build() has succeeded, the builder having created bin/activate,
\* bin/pip and bin/python under the target it was given, the three files
\* isvenv() looks for exist on the manager's host, so that isvenv() says true
\* and a following lay_eggs does not build again, whatever the base path and
\* the remote working directory.
C16_BuiltIsVenv ==
    BuildSucceeded =>
        /\ EnvFileExists(Top(1).m, "bin/activate")
        /\ EnvFileExists(Top(1).m, "bin/pip")
        /\ EnvFileExists(Top(1).m, "bin/python")

\* the same where the remote working directory is the base path
C16_BuiltInBase ==
    (BuildSucceeded /\ mgr[Top(1).m].path = rcwd) => C16_BuiltIsVenv

\* entry i of the log is a step of build: a call made inside a block that is
\* none of isvenv's three checks
IsBuildStep(i) ==
    LET c == rlog[1][i]
    IN  /\ c.inblock
        /\ ~(c.op = "exists" /\ c.arg \in { mgr[c.m].remote_activate,
                                            mgr[c.m].remote_pip,
                                            mgr[c.m].remote_python })

\* the lay_eggs call has ended with the error `exc`
LayEggsRaised(exc) ==
    rout[1].fn = "lay_eggs" /\ rout[1].how = "raised" /\ rout[1].value = exc

\* the build is unwinding: it is in its finally clause with an exception
BuildUnwinding ==
    Top(1).fn = "build" /\ Top(1).pc = "restore" /\ Top(1).exc

\* C17: a build step that fails, by losing the connection or by a status
\* other than 0, is the last remote call: the error leaves build and the
\* lay_eggs around it, and the current host is restored.
C17_FailurePropagates ==
    \A i \in 1..Len(rlog[1]) :
        (IsBuildStep(i) /\ rlog[1][i].outcome # "ok") =>
            /\ i = Len(rlog[1])
            /\ IF stack[1] = <<>>
               THEN LayEggsRaised(IF rlog[1][i].outcome = "error"
                                  THEN "NetworkError" ELSE "SystemExit")
                    /\ env_host_string = env_initial
               ELSE BuildUnwinding

\* C17 as amended: a build step that raises (the connection fails, or the
\* status is not 0 while env.warn_only is unset) is the last remote call,
\* its error leaves build and lay_eggs, and the current host is restored;
\* with env.warn_only set a status other than 0 raises nothing and build
\* goes on; no step ever removes a remote file.
C17_FailureAmended ==
    /\ [](\A i \in 1..Len(rlog[1]) :
            (/\ IsBuildStep(i)
             /\ \/ rlog[1][i].outcome = "error"
                \/ rlog[1][i].outcome = "nonzero" /\ ~env_warn_only) =>
                /\ i = Len(rlog[1])
                /\ IF stack[1] = <<>>
                   THEN LayEggsRaised(IF rlog[1][i].outcome = "error"
                                      THEN "NetworkError" ELSE "SystemExit")
                        /\ env_host_string = env_initial
                   ELSE BuildUnwinding)
    /\ []((/\ rlog[1] # <<>>
           /\ IsBuildStep(Len(rlog[1]))
           /\ rlog[1][Len(rlog[1])].outcome = "nonzero"
           /\ env_warn_only) =>
             /\ stack[1] # <<>> => ~BuildUnwinding
             /\ stack[1] = <<>> =>
                  ~LayEggsRaised("SystemExit") /\ ~LayEggsRaised("NetworkError"))
    /\ [](stack[1] = <<>> => env_host_string = env_initial)
    /\ [][rfs \subseteq rfs']_vars

\* the builder failed inside lay_eggs after the upload had been made
C17_Witness ==
    /\ stack[1] = <<>>
    /\ LayEggsRaised("SystemExit")
    /\ Len(rlog[1]) > 1
    /\ IsBuildStep(Len(rlog[1]))
    /\ rlog[1][Len(rlog[1])].arg = BuilderCmd(rout[1].m)
    /\ rlog[1][Len(rlog[1]) - 1].outcome = "ok"
    /\ <<mgr[rout[1].m].host_string, mgr[rout[1].m].remote_venv_file>> \in rfs
    /\ env_host_string = <<"root", "@", "old">>

\* a build is the call in progress
InBuild == stack[1] # <<>> /\ Top(1).fn = "build"

\* the bootstrap script of manager m is on its host: a build of m made its
\* upload, and so reached the interpreter step
ScriptUploaded(m) ==
    LET path == mgr[m].path \o <<"/", "virtualenv.py">>
        abs == IF path[1] = "/" THEN path ELSE rcwd \o <<"/">> \o path
    IN  <<mgr[m].host_string, abs>> \in rfs

\* the entries of the log that run `which python`
Lookups == {i \in 1..Len(rlog[1]) : rlog[1][i].arg = <<"which", " ", "python">>}

\* the entries of the log that run the builder
BuilderRuns ==
    {i \in 1..Len(rlog[1]) :
        /\ rlog[1][i].op = "run"
        /\ \E k \in 1..Len(rlog[1][i].arg) : rlog[1][i].arg[k] = "--no-site-packages"}

\* C18: in a sequence of builds of one manager the lookup `which python` is
\* never run when an interpreter was given, and is otherwise run in the
\* first build that reaches it and in no later one: a build that comes to
\* its upload after an earlier build made its own has the interpreter set.
C18_LookupOnce ==
    (InBuild /\ Top(1).pc = "put" /\ ScriptUploaded(Top(1).m)) =>
        mgr[Top(1).m].python \notin {None, <<>>}

\* C18 as amended: a build that starts with an interpreter set, given at
\* construction or stored by an earlier build, runs no lookup and runs the
\* builder with that interpreter; a build that starts without one and passes
\* the lookup has run it once and stored its output, the path on status 0
\* and the empty text otherwise; an interpreter once set is never changed.
C18_LookupAmended ==
    /\ []((InBuild /\ Top(1).py0 \notin {None, <<>>}) =>
            /\ Lookups = {}
            /\ mgr[Top(1).m].python = Top(1).py0
            /\ \A i \in BuilderRuns :
                 SubSeq(rlog[1][i].arg, 1, Len(Top(1).py0) + 1) = Top(1).py0 \o <<" ">>)
    /\ []((/\ InBuild
           /\ Top(1).py0 \in {None, <<>>}
           /\ Top(1).pc = "builder" \/ (Top(1).pc = "restore" /\ BuilderRuns # {})) =>
            /\ Cardinality(Lookups) = 1
            /\ \A i \in Lookups :
                 /\ \A j \in BuilderRuns : i < j
                 /\ mgr[Top(1).m].python =
                      IF rlog[1][i].outcome = "ok"
                      THEN <<"/", "usr", "/", "bin", "/", "python">> ELSE <<>>)
    /\ [][ \A m \in MgrIds :
             mgr[m].python \notin {None, <<>>} => mgr'[m].python = mgr[m].python ]_vars

\* a second build has run the builder with the path the first one looked up
C18_Witness ==
    /\ InBuild
    /\ Top(1).pc = "restore"
    /\ ~Top(1).exc
    /\ ops[1] = 2
    /\ Top(1).py0 = WhichPython
    /\ Lookups = {}
    /\ BuilderRuns # {}

====
